---- MODULE Spec2Model ----
(***************************************************************************)
(* Job Application Tracker: the persistence layer of app_tracker.py (a     *)
(* Streamlit script: load_data / save_data over a CSV file, and the add,   *)
(* modify, delete and configuration handlers that call them) and the       *)
(* one-shot CSV -> SQLite script migrate_data.py.                          *)
(*                                                                         *)
(* Text is a sequence of one-character strings, so that strip(), the URL   *)
(* regular expression and the Identifier concatenation are computed.  A    *)
(* DataFrame cell is a text or NaN (pandas' missing value).  The texts the *)
(* model feeds to the forms are non-numeric, so read_csv's numeric dtype   *)
(* inference never applies to them; what read_csv does to them (empty and  *)
(* NA-like fields become NaN) is modelled.                                 *)
(***************************************************************************)
EXTENDS Integers, Sequences, FiniteSets, TLC

VARIABLES
    store,      \* file system: path -> file (absent, unreadable, or CSV content)
    table,      \* the SQLite table 'applications' of tracker.db
    cache,      \* the process-wide st.cache_data entry of load_data()
    inited,     \* session -> whether 'file_path'/'df' are in st.session_state
    file_path,  \* session -> st.session_state.file_path
    df,         \* session -> st.session_state.df
    last        \* the last script run: what was asked and what was shown

vars == <<store, table, cache, inited, file_path, df, last>>

-----------------------------------------------------------------------------
(* Bounds *)

MaxRows == 2        \* rows a session's DataFrame may grow to by inserts
MaxMinute == 1      \* datetime.now() is drawn from minutes 0..MaxMinute
MaxTableRows == 3   \* rows the SQLite table may grow to by migrations

-----------------------------------------------------------------------------
(* Text helpers *)

Whitespace == {" ", "\t", "\n"}

Alnum ==
    {"a","b","c","d","e","f","g","h","i","j","k","l","m","n","o","p","q","r",
     "s","t","u","v","w","x","y","z",
     "A","B","C","D","E","F","G","H","I","J","K","L","M","N","O","P","Q","R",
     "S","T","U","V","W","X","Y","Z",
     "0","1","2","3","4","5","6","7","8","9"}

Digit == <<"0","1","2","3","4","5","6","7","8","9">>

StartsWith(s, p) == Len(s) >= Len(p) /\ SubSeq(s, 1, Len(p)) = p

Drop(s, n) == SubSeq(s, n + 1, Len(s))

RECURSIVE LStrip(_)
LStrip(s) == IF s # <<>> /\ Head(s) \in Whitespace THEN LStrip(Tail(s)) ELSE s

RECURSIVE RStrip(_)
RStrip(s) ==
    IF s # <<>> /\ s[Len(s)] \in Whitespace
    THEN RStrip(SubSeq(s, 1, Len(s) - 1)) ELSE s

\* str.strip()
Strip(s) == RStrip(LStrip(s))

\* length of the longest prefix of s made of [a-zA-Z0-9]
RECURSIVE AlnumRun(_)
AlnumRun(s) ==
    IF s # <<>> /\ Head(s) \in Alnum THEN 1 + AlnumRun(Tail(s)) ELSE 0

\* re.match(URL_REGEX, s): a prefix of s has the URL shape
re_match_URL_REGEX(s) ==
    /\ StartsWith(s, <<"h","t","t","p">>)
    /\ LET a == Drop(s, 4)
           b == IF StartsWith(a, <<"s">>) THEN Drop(a, 1) ELSE a
       IN  /\ StartsWith(b, <<":","/","/">>)
           /\ LET c == Drop(b, 3)
                  d == IF StartsWith(c, <<"w","w","w",".">>) THEN Drop(c, 4) ELSE c
                  k == AlnumRun(d)
              IN  /\ k >= 1
                  /\ Len(d) > k
                  /\ d[k + 1] = "."
                  /\ Len(d) - (k + 1) >= 2

\* re.fullmatch(r"https?://(?:www\.|(?!www\.))[a-zA-Z0-9]+\.[^\s]{2,}", s)
\* "s?" and "[a-zA-Z0-9]+" are followed by characters outside their own class
\* and "www\." is excluded by the lookahead of the other alternative, so no
\* backtracking choice is left: the match is decided left to right.
re_fullmatch_URL_REGEX(s) ==
    /\ StartsWith(s, <<"h","t","t","p">>)
    /\ LET a == Drop(s, 4)
           b == IF StartsWith(a, <<"s">>) THEN Drop(a, 1) ELSE a
       IN  /\ StartsWith(b, <<":","/","/">>)
           /\ LET c == Drop(b, 3)
                  d == IF StartsWith(c, <<"w","w","w",".">>) THEN Drop(c, 4) ELSE c
                  k == AlnumRun(d)
              IN  /\ k >= 1
                  /\ Len(d) > k
                  /\ d[k + 1] = "."
                  /\ LET rest == Drop(d, k + 1)
                     IN  /\ Len(rest) >= 2
                         /\ \A i \in 1..Len(rest) : rest[i] \notin Whitespace

\* datetime.now().strftime('%Y-%m-%d %H:%M') at minute m of a fixed hour
strftime(m) ==
    <<"2","0","2","6","-","1","1","-","0","4"," ","0","8",":">>
        \o <<Digit[(m \div 10) + 1], Digit[(m % 10) + 1]>>

-----------------------------------------------------------------------------
(* Schema *)

DEFAULT_FILE_NAME == "job_applications.csv"

OLD_CSV_PATH == "job_applications_Update.csv"

Submitted == <<"S","u","b","m","i","t","t","e","d">>
Interviewing == <<"I","n","t","e","r","v","i","e","w","i","n","g">>
Rejected == <<"R","e","j","e","c","t","e","d">>
NotSubmitted == <<"N","o","t"," ","S","u","b","m","i","t","t","e","d">>

ALLOWED_STATUSES == <<Submitted, Interviewing, Rejected, NotSubmitted>>

HEADERS ==
    <<"Job_Title", "Company", "Date_Submitted", "Requirements_Matched",
      "Link", "Status", "Require_Enhancement">>

Range(f) == {f[i] : i \in DOMAIN f}

-----------------------------------------------------------------------------
(* DataFrame cells, DataFrames and CSV files *)

Str(t) == [nan |-> FALSE, t |-> t]

NaN == [nan |-> TRUE, t |-> <<>>]

\* str(value) / Series.astype(str)
AsStr(c) == IF c.nan THEN <<"n","a","n">> ELSE c.t

DataFrame(cols, rows) == [columns |-> cols, rows |-> rows]

\* pd.DataFrame(columns=HEADERS)
EmptyFrame == DataFrame(HEADERS, <<>>)

ColIndex(cols, c) == CHOOSE i \in 1..Len(cols) : cols[i] = c

\* df[col] of one row
Cell(d, i, c) == d.rows[i][ColIndex(d.columns, c)]

NoFile == [kind |-> "absent", header |-> <<>>, rows |-> <<>>]

Unreadable == [kind |-> "corrupt", header |-> <<>>, rows |-> <<>>]

CsvFile(header, rows) == [kind |-> "csv", header |-> header, rows |-> rows]

\* the field to_csv writes for a cell (na_rep='')
to_csv_field(c) == IF c.nan THEN <<>> ELSE c.t

\* the lines df.to_csv(path, index=False) writes after the header
to_csv_rows(d) ==
    [i \in 1..Len(d.rows) |->
        [j \in 1..Len(d.columns) |-> to_csv_field(d.rows[i][j])]]

\* df.to_csv(path, index=False): header line, then every row
to_csv(d) == CsvFile(d.columns, to_csv_rows(d))

\* pandas' default na_values that the model's texts can spell
NaValues == {<<>>, <<"N","A">>, <<"N","/","A">>, <<"n","a","n">>}

read_csv_field(t) == IF t \in NaValues THEN NaN ELSE Str(t)

\* pd.read_csv(path) of a parsable file
read_csv(f) ==
    DataFrame(f.header,
              [i \in 1..Len(f.rows) |->
                  [j \in 1..Len(f.header) |-> read_csv_field(f.rows[i][j])]])

\* the reconciliation keeping the columns the schema does not know after
\* the schema's
reindex_keep_extra(d, cols) ==
    LET all == cols \o SelectSeq(d.columns, LAMBDA c : c \notin Range(cols))
    IN  DataFrame(all,
                  [i \in 1..Len(d.rows) |->
                      [j \in 1..Len(all) |->
                          IF all[j] \in Range(d.columns)
                          THEN Cell(d, i, all[j]) ELSE Str(<<>>)]])

\* df.reindex(columns=cols, fill_value='')
reindex(d, cols) ==
    DataFrame(cols,
              [i \in 1..Len(d.rows) |->
                  [j \in 1..Len(cols) |->
                      IF cols[j] \in Range(d.columns)
                      THEN Cell(d, i, cols[j]) ELSE Str(<<>>)]])

-----------------------------------------------------------------------------
(* load_data and save_data *)

NoCache == [full |-> FALSE, df |-> EmptyFrame, msgs |-> <<>>]

\* load_data's body taking a file without rows for a missing one
load_data_body_reinit(path, st, can_create) ==
    IF st[path].kind = "absent" \/ (st[path].kind = "csv" /\ st[path].rows = <<>>)
    THEN IF can_create
         THEN [df |-> EmptyFrame, msgs |-> <<"toast:initialized">>,
               store |-> [st EXCEPT ![path] = to_csv(EmptyFrame)]]
         ELSE [df |-> EmptyFrame, msgs |-> <<"warning:init">>, store |-> st]
    ELSE IF st[path].kind = "corrupt"
         THEN [df |-> EmptyFrame, msgs |-> <<"error:read">>, store |-> st]
         ELSE [df |-> reindex(read_csv(st[path]), HEADERS), msgs |-> <<>>,
               store |-> st]

\* the body of load_data (a cache miss).  can_create: whether makedirs and
\* to_csv of a new file succeed in the environment.
load_data_body(path, st, can_create) ==
    IF st[path].kind = "absent"
    THEN IF can_create
         THEN [df |-> EmptyFrame, msgs |-> <<"toast:initialized">>,
               store |-> [st EXCEPT ![path] = to_csv(EmptyFrame)]]
         ELSE [df |-> EmptyFrame, msgs |-> <<"warning:init">>, store |-> st]
    ELSE IF st[path].kind = "corrupt"
         THEN [df |-> EmptyFrame, msgs |-> <<"error:read">>, store |-> st]
         ELSE [df |-> reindex(read_csv(st[path]), HEADERS), msgs |-> <<>>,
               store |-> st]

\* load_data() under @st.cache_data: the function takes no argument, so the
\* cache holds one entry for the whole process, whatever the session and its
\* file_path; a hit returns a copy of the cached value and replays the
\* messages the cached call displayed.
load_data(path, st, ca, can_create) ==
    IF ca.full
    THEN [df |-> ca.df, msgs |-> ca.msgs, store |-> st, cache |-> ca, hit |-> TRUE]
    ELSE LET r == load_data_body(path, st, can_create)
         IN  [df |-> r.df, msgs |-> r.msgs, store |-> r.store,
              cache |-> [full |-> TRUE, df |-> r.df, msgs |-> r.msgs],
              hit |-> FALSE]

\* save_data writing the last row only (a delta) instead of the snapshot
save_data_delta(d, path, st, ok) ==
    IF ok
    THEN [store |-> [st EXCEPT ![path] =
                        to_csv(DataFrame(d.columns,
                                         SubSeq(d.rows, Len(d.rows), Len(d.rows))))],
          msgs |-> <<"toast:saved">>]
    ELSE [store |-> st, msgs |-> <<"error:save">>]

\* save_data with the file opened for appending instead of overwritten
save_data_append(d, path, st, ok) ==
    IF ok
    THEN [store |-> [st EXCEPT ![path] =
                        CsvFile(d.columns, st[path].rows \o to_csv_rows(d))],
          msgs |-> <<"toast:saved">>]
    ELSE [store |-> st, msgs |-> <<"error:save">>]

\* save_data leaving a file it cannot read as it is and still reporting the
\* save
save_data_keep_unreadable(d, path, st, ok) ==
    IF ok
    THEN [store |-> IF st[path].kind = "corrupt" THEN st
                    ELSE [st EXCEPT ![path] = to_csv(d)],
          msgs |-> <<"toast:saved">>]
    ELSE [store |-> st, msgs |-> <<"error:save">>]

\* save_data(df).  ok: whether to_csv succeeds in the environment; a failure
\* is an error raised when the file is opened, which leaves the file as it was.
save_data(d, path, st, ok) ==
    IF ok
    THEN [store |-> [st EXCEPT ![path] = to_csv(d)], msgs |-> <<"toast:saved">>]
    ELSE [store |-> st, msgs |-> <<"error:save">>]

-----------------------------------------------------------------------------
(* DataFrame operations of the handlers *)

\* the rows of d under the columns cols, NaN where d lacks the column
align(d, cols) ==
    [i \in 1..Len(d.rows) |->
        [j \in 1..Len(cols) |->
            IF cols[j] \in Range(d.columns) THEN Cell(d, i, cols[j]) ELSE NaN]]

\* pd.concat([d, e], ignore_index=True)
concat(d, e) ==
    LET cols == d.columns \o SelectSeq(e.columns, LAMBDA c : c \notin Range(d.columns))
    IN  DataFrame(cols, align(d, cols) \o align(e, cols))

\* df_temp['Identifier'] of row i
Identifier(d, i) ==
    AsStr(Cell(d, i, "Job_Title")) \o <<" ", "-", " ">> \o AsStr(Cell(d, i, "Company"))

\* the selection resolved to the last row with the identifier (.iloc[-1])
update_index_last(d, identifier) ==
    CHOOSE i \in 1..Len(d.rows) :
        /\ Identifier(d, i) = identifier
        /\ \A k \in (i + 1)..Len(d.rows) : Identifier(d, k) # identifier

\* df_temp[df_temp['Identifier'] == identifier].iloc[0].name
update_index(d, identifier) ==
    CHOOSE i \in 1..Len(d.rows) :
        /\ Identifier(d, i) = identifier
        /\ \A k \in 1..(i - 1) : Identifier(d, k) # identifier

\* the loop "df.loc[update_index, col] = new_values[col]" over HEADERS
set_row(d, idx, new_values) ==
    DataFrame(d.columns,
              [d.rows EXCEPT ![idx] =
                  [j \in 1..Len(d.columns) |->
                      IF d.columns[j] \in Range(HEADERS)
                      THEN new_values[d.columns[j]] ELSE d.rows[idx][j]]])

\* the filter dropping the first matching row only
filter_out_first(d, col, value) ==
    LET j == ColIndex(d.columns, col)
        matching == {i \in 1..Len(d.rows) : AsStr(d.rows[i][j]) = AsStr(value)}
    IN  IF matching = {} THEN d
        ELSE LET first == CHOOSE i \in matching : \A k \in matching : i <= k
             IN  DataFrame(d.columns,
                           SubSeq(d.rows, 1, first - 1)
                               \o SubSeq(d.rows, first + 1, Len(d.rows)))

\* df[df[col].astype(str) != str(value)]
filter_out(d, col, value) ==
    DataFrame(d.columns,
              SelectSeq(d.rows,
                        LAMBDA r : AsStr(r[ColIndex(d.columns, col)]) # AsStr(value)))

\* df[col].unique()
unique(d, col) == {Cell(d, i, col) : i \in 1..Len(d.rows)}

-----------------------------------------------------------------------------
(* What the last script run was, for the properties *)

NoRun ==
    [op |-> "none", s |-> "-", msgs |-> <<>>, m |-> 0, n |-> 0, idx |-> 0,
     col |-> "-", val |-> NaN]

Shown(run, kind) == kind \in Range(run.msgs)

-----------------------------------------------------------------------------
(* Sessions, paths and the inputs the forms are given *)

Sessions == {"A", "B"}

Paths == {DEFAULT_FILE_NAME, OLD_CSV_PATH}

Url == <<"h","t","t","p",":","/","/","a",".","b","c">>

T == <<"T">>
U == <<"U">>
X == <<"X">>

\* a file written before the column Require_Enhancement existed, with a
\* column and a Status the schema does not know
LegacyFile ==
    CsvFile(<<"Job_Title", "Company", "Date_Submitted", "Link", "Status", "Notes">>,
            << <<T, X,
                 <<"2","0","2","5","-","0","1","-","0","1"," ","0","9",":","0","0">>,
                 Url, <<"A","p","p","l","i","e","d">>, <<"h","i">> >> >>)

\* the files found when the process starts
\* the table 'applications': absent, or its columns and rows
NoTable == [kind |-> "absent", header |-> <<>>, rows |-> <<>>]

Table(header, rows) == [kind |-> "table", header |-> header, rows |-> rows]

\* the table as the application's initialization creates it, empty or with a
\* row written by the application
InitialTables ==
    {NoTable, Table(HEADERS, <<>>),
     Table(HEADERS,
           << <<Str(U), Str(X), Str(strftime(0)), NaN, Str(Url), Str(Rejected),
                NaN>> >>)}

InitialStores ==
    {[p \in Paths |-> IF p = DEFAULT_FILE_NAME THEN f[1] ELSE f[2]] :
        f \in {<<NoFile, LegacyFile>>, <<LegacyFile, Unreadable>>,
                <<Unreadable, NoFile>>}}

\* what is typed in the Add Entry form: (Job Title, Company, Job Link)
AddInputs ==
    {<<T, X, <<" ">> \o Url \o <<" ">> >>,
     <<<<>>, X, Url>>, <<T, <<>>, Url>>, <<T, X, <<" ">> >>,
     <<T, X, <<"a",".","b","c">> >>,
     <<T, X, Url \o <<" ", "x">> >>}
RequirementsInputs == {<<"7","/","1","0">>}
EnhancementInputs == {<<>>}
AddStatusInputs == {Submitted}

\* what is done to the Modify form before it is submitted: a field is left
\* as presented ("keep") or given a new text / a selected status
Keep == <<"keep">>
NoEdit ==
    [Job_Title |-> Keep, Company |-> Keep, Requirements_Matched |-> Keep,
     Link |-> Keep, Status |-> Keep, Require_Enhancement |-> Keep]
ModifyInputs == {NoEdit, [NoEdit EXCEPT !.Status = Interviewing]}

\* what the Delete page is asked to delete by; Probe is a value no row holds
DeleteColumns == {"Job_Title", "Require_Enhancement"}
Probe == Str(<<"?">>)

Minutes == 0..MaxMinute

-----------------------------------------------------------------------------
(* Initial state: nothing has run; the files are whatever earlier runs left *)

Init ==
    /\ store \in InitialStores
    /\ table = NoTable
    /\ cache = NoCache
    /\ inited = [s \in Sessions |-> FALSE]
    /\ file_path = [s \in Sessions |-> DEFAULT_FILE_NAME]
    /\ df = [s \in Sessions |-> EmptyFrame]
    /\ last = NoRun

-----------------------------------------------------------------------------
(* The script runs *)

\* First run of a session: 'file_path' and 'df' are put in session state
session_init(s) ==
    /\ ~inited[s]
    /\ \E can_create \in BOOLEAN :
        LET r == load_data(DEFAULT_FILE_NAME, store, cache, can_create)
        IN  /\ inited' = [inited EXCEPT ![s] = TRUE]
            /\ file_path' = [file_path EXCEPT ![s] = DEFAULT_FILE_NAME]
            /\ df' = [df EXCEPT ![s] = r.df]
            /\ store' = r.store
            /\ cache' = r.cache
            /\ last' = [NoRun EXCEPT !.op = "init", !.s = s, !.msgs = r.msgs]
    /\ UNCHANGED table

\* lines 128-131: which validation message the add form shows, if any
add_entry_error_match(job_title, company, job_link) ==
    IF job_title = <<>> \/ company = <<>> \/ job_link = <<>> THEN "error:required"
    ELSE IF ~re_match_URL_REGEX(job_link) THEN "error:url"
    ELSE "none"

add_entry_error(job_title, company, job_link) ==
    IF job_title = <<>> \/ company = <<>> \/ job_link = <<>> THEN "error:required"
    ELSE IF ~re_fullmatch_URL_REGEX(job_link) THEN "error:url"
    ELSE "none"

\* "Save Entry" pressed on the Add Entry page
show_add_entry_form(s, job_title, company, requirements, require_enhancement, link_typed, status, minute, save_ok) ==
    /\ inited[s]
    /\ LET job_link == Strip(link_typed)
           err == add_entry_error(job_title, company, job_link)
           run == [NoRun EXCEPT !.op = "insert", !.s = s]
       IN  IF err # "none"
           THEN /\ last' = [run EXCEPT !.msgs = <<err>>]
                /\ UNCHANGED <<store, table, cache, inited, file_path, df>>
           ELSE LET new_entry ==
                        DataFrame(HEADERS,
                                  << <<Str(job_title), Str(company),
                                       Str(strftime(minute)), Str(requirements),
                                       Str(job_link), Str(status),
                                       Str(require_enhancement)>> >>)
                    updated_df == concat(df[s], new_entry)
                    w == save_data(updated_df, file_path[s], store, save_ok)
                IN  /\ Len(df[s].rows) < MaxRows
                    /\ store' = w.store
                    /\ df' = [df EXCEPT ![s] = updated_df]
                    /\ last' = [run EXCEPT !.msgs = w.msgs]
                    /\ UNCHANGED <<table, cache, inited, file_path>>

AddEntry(s) ==
    \E typed \in AddInputs, requirements \in RequirementsInputs,
       require_enhancement \in EnhancementInputs,
       status \in AddStatusInputs, minute \in Minutes, save_ok \in BOOLEAN :
        show_add_entry_form(s, typed[1], typed[2], requirements,
                            require_enhancement, typed[3], status, minute,
                            save_ok)

\* the stored status taken as it is, without the fallback
current_status_stored(selected_status) == AsStr(selected_status)

\* line 178: the status the Modify form's selectbox starts on
current_status(selected_status) ==
    IF \E k \in 1..Len(ALLOWED_STATUSES) :
           ~selected_status.nan /\ selected_status.t = ALLOWED_STATUSES[k]
    THEN AsStr(selected_status) ELSE ALLOWED_STATUSES[1]

\* lines 172-181 with Date_Submitted stamped again when the form is built
new_values_restamped(d, idx, edit) ==
    [col \in Range(HEADERS) |->
        IF col = "Date_Submitted" THEN Str(strftime(0))
        ELSE IF col = "Status"
             THEN Str(IF edit[col] = Keep
                      THEN current_status(Cell(d, idx, col)) ELSE edit[col])
             ELSE Str(IF edit[col] = Keep
                      THEN AsStr(Cell(d, idx, col)) ELSE edit[col])]

\* lines 172-181: the values the Modify form submits.  Date_Submitted is the
\* selected row's; a text_area starts on str(selected_row[col]), the
\* selectbox on current_status.
new_values(d, idx, edit) ==
    [col \in Range(HEADERS) |->
        IF col = "Date_Submitted" THEN Cell(d, idx, col)
        ELSE IF col = "Status"
             THEN Str(IF edit[col] = Keep
                      THEN current_status(Cell(d, idx, col)) ELSE edit[col])
             ELSE Str(IF edit[col] = Keep
                      THEN AsStr(Cell(d, idx, col)) ELSE edit[col])]

\* "Apply Modifications" pressed on the Modify Entry page
show_modify_entry_form(s, identifier, edit, save_ok) ==
    /\ inited[s]
    /\ df[s].rows # <<>>
    /\ LET idx == update_index(df[s], identifier)
           modified == set_row(df[s], idx, new_values(df[s], idx, edit))
           w == save_data(modified, file_path[s], store, save_ok)
       IN  /\ store' = w.store
           /\ df' = [df EXCEPT ![s] = modified]
           /\ last' = [NoRun EXCEPT !.op = "update", !.s = s, !.idx = idx,
                           !.msgs = w.msgs \o <<"success:modified">>]
    /\ UNCHANGED <<table, cache, inited, file_path>>

\* the selectbox offers df_temp['Identifier'].unique()
ModifyEntry(s) ==
    \E i \in 1..Len(df[s].rows), edit \in ModifyInputs, save_ok \in BOOLEAN :
        show_modify_entry_form(s, Identifier(df[s], i), edit, save_ok)

\* The Modify Entry page rendered for a selected identifier, the form not
\* submitted (lines 160-183): the run reports the row and the status the
\* selectbox presents, and assigns nothing
prepare_modify_entry_form(s, identifier) ==
    /\ inited[s]
    /\ df[s].rows # <<>>
    /\ LET idx == update_index(df[s], identifier)
       IN  last' = [NoRun EXCEPT !.op = "view", !.s = s, !.idx = idx,
                        !.col = "Status",
                        !.val = Str(current_status(Cell(df[s], idx, "Status")))]
    /\ UNCHANGED <<store, table, cache, inited, file_path, df>>

ViewEntry(s) ==
    \E i \in 1..Len(df[s].rows) :
        prepare_modify_entry_form(s, Identifier(df[s], i))

\* "Permanently Delete all rows where col = value" pressed on the Delete page
show_delete_form(s, col_to_filter, value_to_delete, save_ok) ==
    /\ inited[s]
    /\ df[s].rows # <<>>
    /\ LET rows_before == Len(df[s].rows)
           df_filtered == filter_out(df[s], col_to_filter, value_to_delete)
           rows_removed == rows_before - Len(df_filtered.rows)
           run == [NoRun EXCEPT !.op = "delete", !.s = s, !.m = rows_before,
                       !.n = rows_removed,
                       !.col = col_to_filter, !.val = value_to_delete]
       IN  IF rows_removed > 0
           THEN LET w == save_data(df_filtered, file_path[s], store, save_ok)
                IN  /\ store' = w.store
                    /\ df' = [df EXCEPT ![s] = df_filtered]
                    /\ last' = [run EXCEPT !.msgs = w.msgs \o <<"success:deleted">>]
           ELSE /\ last' = [run EXCEPT !.msgs = <<"warning:no rows">>]
                /\ UNCHANGED <<store, df>>
    /\ UNCHANGED <<table, cache, inited, file_path>>

\* the selectbox offers df[col].unique(); Probe exercises the handler's
\* branch for a value that matches no row
DeleteData(s) ==
    \E col \in DeleteColumns \cap Range(df[s].columns) :
        \E value \in unique(df[s], col) \cup {Probe}, save_ok \in BOOLEAN :
            show_delete_form(s, col, value, save_ok)

\* "Apply New Path and Reload Data" pressed on the Configuration page
apply_new_path(s, new_path, can_create) ==
    /\ inited[s]
    /\ IF file_path[s] # new_path
       THEN LET r == load_data(new_path, store, cache, can_create)
            IN  /\ file_path' = [file_path EXCEPT ![s] = new_path]
                /\ df' = [df EXCEPT ![s] = r.df]
                /\ store' = r.store
                /\ cache' = r.cache
                /\ last' = [NoRun EXCEPT !.op = "path", !.s = s,
                                !.msgs = r.msgs \o <<"success:path updated">>]
       ELSE /\ last' = [NoRun EXCEPT !.op = "path", !.s = s,
                            !.msgs = <<"info:path unchanged">>]
            /\ UNCHANGED <<store, cache, file_path, df>>
    /\ UNCHANGED <<table, inited>>

ApplyNewPath(s) ==
    \E new_path \in Paths, can_create \in BOOLEAN :
        apply_new_path(s, new_path, can_create)

\* the reload without st.cache_data.clear(): load_data() answered from the
\* cache
clear_cache_and_reload_cached(s, can_create) ==
    /\ inited[s]
    /\ LET r == load_data(file_path[s], store, cache, can_create)
       IN  /\ df' = [df EXCEPT ![s] = r.df]
           /\ store' = r.store
           /\ cache' = r.cache
           /\ last' = [NoRun EXCEPT !.op = "reload", !.s = s,
                           !.msgs = r.msgs \o <<"success:cache cleared">>]
    /\ UNCHANGED <<table, inited, file_path>>

\* "Clear Streamlit Cache and Force Full Reload" pressed
clear_cache_and_reload(s, can_create) ==
    /\ inited[s]
    /\ LET r == load_data(file_path[s], store, NoCache, can_create)
       IN  /\ df' = [df EXCEPT ![s] = r.df]
           /\ store' = r.store
           /\ cache' = r.cache
           /\ last' = [NoRun EXCEPT !.op = "reload", !.s = s,
                           !.msgs = r.msgs \o <<"success:cache cleared">>]
    /\ UNCHANGED <<table, inited, file_path>>

ClearCache(s) == \E can_create \in BOOLEAN : clear_cache_and_reload(s, can_create)

SessionInit(s) == session_init(s)

-----------------------------------------------------------------------------
(* migrate_data.py *)

\* df.to_sql(TABLE_NAME, conn, if_exists='replace', index=False)
to_sql_replace(d, tb) ==
    [ok |-> TRUE, table |-> Table(d.columns, d.rows)]

\* df.to_sql(TABLE_NAME, conn, if_exists='append', index=False): the table is
\* created from the frame's columns when absent; otherwise the rows are
\* inserted by column name, which fails on a column the table lacks, and a
\* column the frame lacks is left NULL (NaN here)
to_sql_append(d, tb) ==
    IF tb.kind = "absent"
    THEN [ok |-> TRUE, table |-> Table(d.columns, d.rows)]
    ELSE IF Range(d.columns) \subseteq Range(tb.header)
         THEN [ok |-> TRUE,
               table |-> Table(tb.header, tb.rows \o align(d, tb.header))]
         ELSE [ok |-> FALSE, table |-> tb]

\* run_migration() connecting first and taking a missing or unreadable CSV
\* file for one without rows
run_migration_lenient(connect_ok, write_ok) ==
    LET src == store[OLD_CSV_PATH]
        run == [NoRun EXCEPT !.op = "migrate"]
        d == IF src.kind = "csv" THEN read_csv(src) ELSE DataFrame(<<>>, <<>>)
        w == to_sql_append(d, table)
    IN  /\ Len(table.rows) + Len(d.rows) <= MaxTableRows
        /\ IF ~connect_ok
           THEN /\ last' = [run EXCEPT !.msgs = <<"error:connecting">>]
                /\ UNCHANGED table
           ELSE IF write_ok /\ w.ok
           THEN /\ table' = w.table
                /\ last' = [run EXCEPT !.n = Len(d.rows), !.msgs =
                               <<"connected", "loaded", "success:migrated">>]
           ELSE /\ last' = [run EXCEPT !.msgs =
                               <<"connected", "loaded", "error:writing">>]
                /\ UNCHANGED table
        /\ UNCHANGED <<store, cache, inited, file_path, df>>

\* run_migration().  connect_ok, write_ok: whether sqlite3.connect and the
\* insert succeed in the environment.
run_migration(connect_ok, write_ok) ==
    LET src == store[OLD_CSV_PATH]
        run == [NoRun EXCEPT !.op = "migrate"]
    IN  /\ IF src.kind = "absent"
           THEN /\ last' = [run EXCEPT !.msgs = <<"error:csv not found">>]
                /\ UNCHANGED table
           ELSE IF src.kind = "corrupt"
           THEN /\ last' = [run EXCEPT !.msgs = <<"error:reading csv">>]
                /\ UNCHANGED table
           ELSE LET d == read_csv(src)
                    w == to_sql_append(d, table)
                IN  /\ Len(table.rows) + Len(d.rows) <= MaxTableRows
                    /\ IF ~connect_ok
                       THEN /\ last' = [run EXCEPT !.msgs =
                                           <<"loaded", "error:connecting">>]
                            /\ UNCHANGED table
                       ELSE IF write_ok /\ w.ok
                       THEN /\ table' = w.table
                            /\ last' = [run EXCEPT !.n = Len(d.rows), !.msgs =
                                           <<"loaded", "connected", "success:migrated">>]
                       ELSE /\ last' = [run EXCEPT !.msgs =
                                           <<"loaded", "connected", "error:writing">>]
                            /\ UNCHANGED table
        /\ UNCHANGED <<store, cache, inited, file_path, df>>

RunMigration ==
    \E connect_ok \in BOOLEAN, write_ok \in BOOLEAN :
        run_migration(connect_ok, write_ok)

-----------------------------------------------------------------------------
(* Specifications *)

\* One browser session on the default path: every page but the path change
Next ==
    \/ SessionInit("A")
    \/ AddEntry("A")
    \/ ModifyEntry("A")
    \/ DeleteData("A")
    \/ ClearCache("A")

Spec == Init /\ [][Next]_vars

\* One browser session that also changes the configured path
NextPaths ==
    \/ SessionInit("A")
    \/ AddEntry("A")
    \/ ApplyNewPath("A")
    \/ ClearCache("A")

SpecPaths == Init /\ [][NextPaths]_vars

\* Two browser sessions of the same process on the default path
NextSessions ==
    \E s \in Sessions :
        \/ SessionInit(s)
        \/ AddEntry(s)
        \/ DeleteData(s)

SpecSessions == Init /\ [][NextSessions]_vars

\* The migration script, run while one session of the application works on
\* the CSV file it reads
InitMigrate ==
    /\ store \in InitialStores
    /\ table \in InitialTables
    /\ cache = NoCache
    /\ inited = [s \in Sessions |-> FALSE]
    /\ file_path = [s \in Sessions |-> DEFAULT_FILE_NAME]
    /\ df = [s \in Sessions |-> EmptyFrame]
    /\ last = NoRun

\* a valid entry added and saved: the rows the migration later reads
AddValidEntry(s) ==
    \E minute \in Minutes :
        show_add_entry_form(s, T, X, <<"7","/","1","0">>, <<>>, Url, Submitted,
                            minute, TRUE)

NextMigrate ==
    \/ RunMigration
    \/ SessionInit("A")
    \/ ApplyNewPath("A")
    \/ AddValidEntry("A")

SpecMigrate == InitMigrate /\ [][NextMigrate]_vars

\* One browser session on the Add Entry and Modify Entry pages
NextModify ==
    \/ SessionInit("A")
    \/ AddValidEntry("A")
    \/ ViewEntry("A")
    \/ ModifyEntry("A")
    \/ ClearCache("A")

SpecModify == Init /\ [][NextModify]_vars

\* a valid entry added, its save succeeding or failing
AddTypedEntry(s) ==
    \E save_ok \in BOOLEAN :
        show_add_entry_form(s, T, X, <<"7","/","1","0">>, <<>>, Url, Submitted,
                            0, save_ok)

\* Two browser sessions that add entries, change their paths and clear the
\* cache
NextReload ==
    \E s \in Sessions :
        \/ SessionInit(s)
        \/ AddTypedEntry(s)
        \/ ApplyNewPath(s)
        \/ ClearCache(s)

SpecReload == Init /\ [][NextReload]_vars

-----------------------------------------------------------------------------
(* Properties *)

Mutating == {"insert", "update", "delete"}

Loads == {"init", "reload", "path"}

Saved(run) == Shown(run, "toast:saved")

SaveFailed(run) == Shown(run, "error:save")

\* the text a file holds for a cell
FieldOf(c) == IF c.nan THEN <<>> ELSE c.t

\* the CSV file holds exactly the rows of the frame d, in order, as text
HoldsSnapshot(f, d) ==
    /\ f.kind = "csv"
    /\ f.header = d.columns
    /\ Len(f.rows) = Len(d.rows)
    /\ \A i \in 1..Len(d.rows) :
        \A j \in 1..Len(d.columns) :
            f.rows[i][j] = FieldOf(d.rows[i][j])

\* the dataset a file holds: its rows under the schema, none if there is
\* no readable file
StoredDataset(f) ==
    IF f.kind = "csv" THEN reindex(read_csv(f), HEADERS) ELSE EmptyFrame

\* C1: after an insert, update or delete whose save succeeded, the file at
\* the session's path holds exactly the rows of the session's DataFrame, in
\* the same order: every save writes the whole dataset.
C1_FullSnapshot ==
    (last.op \in Mutating /\ Saved(last))
        => HoldsSnapshot(store[file_path[last.s]], df[last.s])

C1_Witness ==
    /\ last.op = "update"
    /\ Saved(last)
    /\ Len(df["A"].rows) = 2
    /\ Len(store[DEFAULT_FILE_NAME].rows) = 2

\* C2: when a delete has removed n > 0 of m rows and saved, the next load of
\* that store returns exactly m - n rows, none of which has the deleted
\* value in the column.
C2_DeleteThenLoad ==
    [][(/\ last.op = "delete"
        /\ last.n > 0
        /\ Saved(last)
        /\ last'.op \in {"init", "reload"}
        /\ file_path'[last'.s] = file_path[last.s])
       => (/\ Len(df'[last'.s].rows) = last.m - last.n
           /\ \A i \in 1..Len(df'[last'.s].rows) :
               AsStr(Cell(df'[last'.s], i, last.col)) # AsStr(last.val))]_vars

\* C3: when the save of an insert, update or delete fails, the run reports
\* the failure and no success, the DataFrame keeps the change and the file
\* keeps its content.
C3_FailedSaveReported ==
    [][(last'.op \in Mutating /\ SaveFailed(last'))
       => (/\ ~Shown(last', "success:modified")
           /\ ~Shown(last', "success:deleted")
           /\ ~Saved(last')
           /\ store' = store
           /\ Len(df'[last'.s].rows) =
                 (IF last'.op = "insert" THEN Len(df[last'.s].rows) + 1
                  ELSE IF last'.op = "delete"
                       THEN Len(df[last'.s].rows) - last'.n
                       ELSE Len(df[last'.s].rows)))]_vars

\* what the claim C4 calls an input to reject: title, company or link
\* empty, or a link that is not wholly of the URL shape
RejectedInput(typed) ==
    \/ typed[1] = <<>>
    \/ typed[2] = <<>>
    \/ Strip(typed[3]) = <<>>
    \/ ~re_fullmatch_URL_REGEX(Strip(typed[3]))

RejectedInputs == {typed \in AddInputs : RejectedInput(typed)}

\* C4: an insert whose Job_Title, Company or Link is empty, or whose Link
\* does not fully match the URL shape, is rejected before any I/O: the run
\* shows a validation error only, no save is attempted, and the DataFrames,
\* the files and the cache are unchanged.
C4_InvalidInsertRejected ==
    [][\A typed \in RejectedInputs, requirements \in RequirementsInputs,
          require_enhancement \in EnhancementInputs,
          status \in AddStatusInputs, minute \in Minutes, save_ok \in BOOLEAN :
        (/\ last'.op = "insert"
         /\ show_add_entry_form(last'.s, typed[1], typed[2], requirements,
                                require_enhancement, typed[3], status, minute,
                                save_ok))
        => (/\ last'.msgs \in {<<"error:required">>, <<"error:url">>}
            /\ store' = store
            /\ df' = df
            /\ cache' = cache)]_vars

C4_Witness ==
    /\ last.op = "insert"
    /\ last.msgs = <<"error:url">>
    /\ Len(df["A"].rows) = 1

\* C5: an update leaves Date_Submitted of every row as it was, in the
\* DataFrame and (when saved) in the file, and a delete leaves every
\* remaining row, its Date_Submitted included, as it was.
C5_DatePreserved ==
    [][\A s \in Sessions :
        /\ (last'.op = "update" /\ last'.s = s)
            => (/\ Len(df'[s].rows) = Len(df[s].rows)
                /\ \A i \in 1..Len(df[s].rows) :
                    /\ Cell(df'[s], i, "Date_Submitted")
                         = Cell(df[s], i, "Date_Submitted")
                    /\ Saved(last') =>
                         store'[file_path[s]].rows[i]
                                [ColIndex(store'[file_path[s]].header, "Date_Submitted")]
                           = FieldOf(Cell(df[s], i, "Date_Submitted")))
        /\ (last'.op = "delete" /\ last'.s = s)
            => LET kept == Range(df'[s].rows)
               IN  df'[s].rows = SelectSeq(df[s].rows, LAMBDA r : r \in kept)]_vars

C5_Witness ==
    /\ last.op = "update"
    /\ Saved(last)
    /\ Len(df["A"].rows) = 2
    /\ Cell(df["A"], last.idx, "Date_Submitted") = Str(strftime(1))
    /\ Cell(df["A"], last.idx, "Status") = Str(Interviewing)

\* C6: right after the path is changed, the session's DataFrame is the
\* dataset stored at the new path (empty if there is none).
C6_PathChangeReloads ==
    (last.op = "path" /\ Shown(last, "success:path updated"))
        => df[last.s] = StoredDataset(store[file_path[last.s]])

\* C7: when one session saves right after another session saved to the same
\* file, the file holds exactly the second session's DataFrame, built from
\* that session's own earlier DataFrame and not from the file, no error is
\* shown, and the first session's DataFrame is left as it was.
C7_LastSaveWins ==
    [][\A a \in Sessions, b \in Sessions :
        (/\ a # b
         /\ file_path[a] = file_path[b]
         /\ last.op \in Mutating /\ last.s = a /\ Saved(last)
         /\ last'.op \in Mutating /\ last'.s = b /\ Saved(last'))
        => (/\ HoldsSnapshot(store'[file_path[b]], df'[b])
            /\ Len(store'[file_path[b]].rows) =
                  (IF last'.op = "insert" THEN Len(df[b].rows) + 1
                   ELSE Len(df[b].rows) - last'.n)
            /\ ~SaveFailed(last')
            /\ df'[a] = df[a])]_vars

C7_Witness ==
    /\ last.op = "insert" /\ last.s = "B" /\ Saved(last)
    /\ Len(df["A"].rows) = 2
    /\ Len(df["B"].rows) = 1
    /\ Len(store[DEFAULT_FILE_NAME].rows) = 1

\* C8: a successful migration appends: with d rows in the table and s rows
\* in the CSV file, the table then has d + s rows, the first d as before
\* (so s rows when the table was empty or absent), and s is reported.
C8_MigrationAppends ==
    [][(last'.op = "migrate" /\ Shown(last', "success:migrated"))
       => LET d == Len(table.rows)
              n == Len(store[OLD_CSV_PATH].rows)
          IN  /\ Len(table'.rows) = d + n
              /\ SubSeq(table'.rows, 1, d) = table.rows
              /\ last'.n = n]_vars

C8_Witness ==
    /\ last.op = "migrate"
    /\ Shown(last, "success:migrated")
    /\ last.n > 0
    /\ Len(table.rows) > last.n

\* C9: when a load has created the file of a path that had none, that load
\* returned no rows and left a file holding the schema header only, and a
\* load of the same path right after it returns no rows, creates nothing
\* and leaves the file as it is.
C9_InitIdempotent ==
    [][(/\ last.op \in Loads
        /\ Shown(last, "toast:initialized")
        /\ last'.op \in Loads
        /\ file_path'[last'.s] = file_path[last.s])
       => (/\ df[last.s] = EmptyFrame
           /\ store[file_path[last.s]] = CsvFile(HEADERS, <<>>)
           /\ df'[last'.s] = EmptyFrame
           /\ store' = store
           /\ ~Shown(last', "toast:initialized"))]_vars

C9_Witness ==
    /\ last.op = "reload"
    /\ last.msgs = <<"success:cache cleared">>
    /\ df["A"] = EmptyFrame
    /\ store[DEFAULT_FILE_NAME] = CsvFile(HEADERS, <<>>)
    /\ cache.full /\ cache.df = EmptyFrame

\* C10: a load of a path whose file is unreadable, or is missing and stays
\* missing, returns the empty DataFrame with the schema's columns, shows a
\* warning or an error, and leaves the files as they are.
C10_LoadFallsBack ==
    [][(/\ last'.op \in Loads
        /\ last'.msgs # <<"info:path unchanged">>
        /\ \/ store[file_path'[last'.s]].kind = "corrupt"
           \/ /\ store[file_path'[last'.s]].kind = "absent"
              /\ store'[file_path'[last'.s]].kind = "absent")
       => (/\ df'[last'.s] = EmptyFrame
           /\ (Shown(last', "warning:init") \/ Shown(last', "error:read"))
           /\ store' = store)]_vars

\* the texts a row of a DataFrame is written to a file as
FieldsOf(row) == [j \in 1..Len(row) |-> FieldOf(row[j])]

\* C11: an insert whose save succeeded has appended exactly one row at the
\* end, with a Date_Submitted that is not empty, has left the earlier rows as
\* they were and in their order, and has written the whole DataFrame; and the
\* load of that store that follows it returns a dataset that contains the new
\* row.
C11_InsertThenLoad ==
    [][/\ (last'.op = "insert" /\ Saved(last'))
           => LET s == last'.s
                  k == Len(df[s].rows)
              IN  /\ Len(df'[s].rows) = k + 1
                  /\ SubSeq(df'[s].rows, 1, k) = df[s].rows
                  /\ AsStr(Cell(df'[s], k + 1, "Date_Submitted")) # <<>>
                  /\ ~Cell(df'[s], k + 1, "Date_Submitted").nan
                  /\ HoldsSnapshot(store'[file_path[s]], df'[s])
       /\ (/\ last.op = "insert" /\ Saved(last)
           /\ last'.op \in {"init", "reload"}
           /\ file_path'[last'.s] = file_path[last.s])
           => \E i \in 1..Len(df'[last'.s].rows) :
                  FieldsOf(df'[last'.s].rows[i])
                      = FieldsOf(df[last.s].rows[Len(df[last.s].rows)])]_vars

\* the least position of d whose row has the identifier
FirstMatch(d, identifier) ==
    LET matches == {k \in 1..Len(d.rows) : Identifier(d, k) = identifier}
    IN  CHOOSE k \in matches : \A j \in matches : k <= j

C13_DeleteNoMatchNoOp ==
    [][(last'.op = "delete")
       => LET s == last'.s
              matching == {i \in 1..Len(df[s].rows) :
                              AsStr(Cell(df[s], i, last'.col)) = AsStr(last'.val)}
          IN  /\ last'.n = Cardinality(matching)
              /\ last'.m = Len(df[s].rows)
              /\ (matching = {})
                    => /\ last'.msgs = <<"warning:no rows">>
                       /\ df' = df
                       /\ store' = store
              /\ (matching # {})
                    => /\ Shown(last', "success:deleted")
                       /\ ~Shown(last', "warning:no rows")
                       /\ Len(df'[s].rows) = last'.m - last'.n
                       /\ \A i \in 1..Len(df'[s].rows) :
                              AsStr(Cell(df'[s], i, last'.col)) # AsStr(last'.val)
                       /\ df'[s].rows =
                              SelectSeq(df[s].rows,
                                        LAMBDA r : r \in Range(df'[s].rows))
                       /\ Saved(last')
                              => HoldsSnapshot(store'[file_path[s]], df'[s])]_vars

C13_Witness ==
    /\ last.op = "delete"
    /\ last.n = 0
    /\ last.val = Probe
    /\ last.msgs = <<"warning:no rows">>
    /\ Len(df["A"].rows) = 2
    /\ Len(store[DEFAULT_FILE_NAME].rows) = 2

StatusAllowed(c) == ~c.nan /\ c.t \in Range(ALLOWED_STATUSES)

\* C14: the Modify page built for a row whose stored Status is not one of
\* the allowed statuses presents Submitted (and the stored status otherwise);
\* building the page changes no DataFrame, file or cache, so the stored
\* Status is still the one outside the set; it is the submitted form that
\* writes the presented status to the row.
C14_StatusFallbackPresented ==
    [][/\ (last'.op = "view")
           => LET s == last'.s
                  stored == Cell(df[s], last'.idx, "Status")
              IN  /\ last'.val = (IF StatusAllowed(stored) THEN stored
                                  ELSE Str(Submitted))
                  /\ df' = df
                  /\ store' = store
                  /\ cache' = cache
       /\ \A s \in Sessions :
            \A i \in 1..Len(df[s].rows) :
              (/\ ~StatusAllowed(Cell(df[s], i, "Status"))
               /\ Len(df'[s].rows) = Len(df[s].rows)
               /\ Cell(df'[s], i, "Status") # Cell(df[s], i, "Status"))
              => \/ last'.op = "update" /\ last'.s = s /\ last'.idx = i
                 \/ last'.op \in Loads /\ last'.s = s]_vars

C14_Witness ==
    /\ last.op = "view"
    /\ last.val = Str(Submitted)
    /\ ~StatusAllowed(Cell(df["A"], last.idx, "Status"))
    /\ Len(df["A"].rows) = 2

\* C15: a migration whose CSV file is missing or cannot be read reports that
\* one error and stops: it does not connect to the database, the table is as
\* it was (no row of a partial migration), and nothing is tried again.
C15_MigrateFailsFast ==
    [][(/\ last'.op = "migrate"
        /\ store[OLD_CSV_PATH].kind \in {"absent", "corrupt"})
       => (/\ last'.msgs = (IF store[OLD_CSV_PATH].kind = "absent"
                            THEN <<"error:csv not found">>
                            ELSE <<"error:reading csv">>)
           /\ ~Shown(last', "connected")
           /\ ~Shown(last', "success:migrated")
           /\ table' = table
           /\ store' = store)]_vars

C15_Witness ==
    /\ last.op = "migrate"
    /\ last.msgs = <<"error:reading csv">>
    /\ store[OLD_CSV_PATH].kind = "corrupt"
    /\ table.kind = "table"
    /\ Len(table.rows) = 1

\* every cell of the DataFrame is a text (the empty text included)
AllText(d) ==
    \A i \in 1..Len(d.rows) : \A j \in 1..Len(d.columns) : ~d.rows[i][j].nan

\* C16: when a DataFrame of texts under the schema's columns has been saved
\* and the store is then loaded, the loaded DataFrame equals the saved one,
\* row for row and field for field.
C16_RoundTrip ==
    [][\A s \in Sessions :
        (/\ last.op \in Mutating /\ last.s = s /\ Saved(last)
         /\ df[s].columns = HEADERS
         /\ AllText(df[s])
         /\ last'.op = "reload" /\ last'.s = s)
        => df'[s] = df[s]]_vars

\* C17: every DataFrame a load returns has exactly the seven schema columns
\* in schema order, and so has every file a save writes after inserts,
\* updates and deletes; when the load reads a file, a column the file lacks
\* holds the empty text in every row, a column the schema lacks is gone and
\* no row is lost; the Identifier column of the Modify page is in no
\* DataFrame and no written file.
C17_SchemaColumns ==
    [][/\ \A s \in Sessions : inited'[s] => df'[s].columns = HEADERS
       /\ (last'.op \in Mutating /\ Saved(last'))
             => /\ store'[file_path[last'.s]].kind = "csv"
                /\ store'[file_path[last'.s]].header = HEADERS
                /\ \A i \in 1..Len(store'[file_path[last'.s]].rows) :
                       Len(store'[file_path[last'.s]].rows[i]) = Len(HEADERS)
       /\ (/\ last'.op \in {"init", "reload"}
           /\ (last'.op = "reload" \/ ~cache.full)
           /\ store[file_path'[last'.s]].kind = "csv")
             => LET f == store[file_path'[last'.s]]
                    d == df'[last'.s]
                IN  /\ Len(d.rows) = Len(f.rows)
                    /\ \A i \in 1..Len(d.rows) :
                         \A j \in 1..Len(HEADERS) :
                           IF HEADERS[j] \in Range(f.header)
                           THEN d.rows[i][j] = read_csv_field(
                                    f.rows[i][ColIndex(f.header, HEADERS[j])])
                           ELSE d.rows[i][j] = Str(<<>>)
       /\ "Identifier" \notin Range(HEADERS)
       /\ \A s \in Sessions : "Identifier" \notin Range(df'[s].columns)
       /\ (last'.op \in Mutating)
             => "Identifier" \notin Range(store'[file_path[last'.s]].header)]_vars

C17_Witness ==
    /\ last.op = "update"
    /\ Saved(last)
    /\ store[DEFAULT_FILE_NAME].header = HEADERS
    /\ Len(store[DEFAULT_FILE_NAME].rows) = 2
    /\ Cell(df["A"], 1, "Date_Submitted") = Str(LegacyFile.rows[1][3])
    /\ Cell(df["A"], 1, "Require_Enhancement") = Str(<<>>)

\* C18: right after "Clear Streamlit Cache and Force Full Reload", the
\* session's DataFrame is the dataset stored at the session's path (empty if
\* there is no readable file), whatever path changes, inserts, failed saves
\* and writes of the other session came before.
C18_ClearCacheReloads ==
    (last.op = "reload")
        => df[last.s] = StoredDataset(store[file_path[last.s]])

C18_Witness ==
    /\ last.op = "reload" /\ last.s = "A"
    /\ file_path["A"] = OLD_CSV_PATH
    /\ file_path["B"] = OLD_CSV_PATH
    /\ Len(df["A"].rows) = 2
    /\ Len(df["B"].rows) = 1
    /\ Len(store[OLD_CSV_PATH].rows) = 2

\* C19: when a session holds the empty DataFrame because the file at its
\* path could not be read, an insert whose save succeeds replaces that file
\* by one that holds the schema header and exactly the one new row: nothing
\* of the unreadable file is kept.
C19_InsertOverwritesUnreadable ==
    [][\A s \in Sessions :
        (/\ inited[s]
         /\ store[file_path[s]].kind = "corrupt"
         /\ df[s] = EmptyFrame
         /\ last'.op = "insert" /\ last'.s = s /\ Saved(last'))
        => (/\ df'[s].columns = HEADERS
            /\ Len(df'[s].rows) = 1
            /\ store'[file_path[s]] = CsvFile(HEADERS, <<FieldsOf(df'[s].rows[1])>>)
            /\ store'[file_path[s]] # store[file_path[s]]
            /\ \A p \in Paths : p # file_path[s] => store'[p] = store[p])]_vars

C19_Witness ==
    /\ last.op = "insert" /\ Saved(last)
    /\ file_path["A"] = OLD_CSV_PATH
    /\ store[DEFAULT_FILE_NAME] = LegacyFile
    /\ Len(store[OLD_CSV_PATH].rows) = 1
    /\ Len(df["A"].rows) = 1
    /\ cache.msgs = <<"error:read">>

====
